---------------------------- MODULE Spec2Model ----------------------------
(***************************************************************************)
(* A model of GskPathBuilder (src/gsk/gskpathbuilder.c).                   *)
(*                                                                         *)
(* The builder is the C struct _GskPathBuilder: the (reverse) list of      *)
(* recorded contours, the flags of the contour being built, the current    *)
(* point, and the two growable arrays ops and points.  Every C function    *)
(* that takes the builder is an operator from a builder record to a        *)
(* builder record; every public call is an action that applies it.         *)
(*                                                                         *)
(* Points are pairs of integers <<x, y>>.  A pathop is the record          *)
(* [op, idx] that gsk_pathop_encode_index builds: the operation and the    *)
(* 0-based index of the segment's first point in the points array.         *)
(*                                                                         *)
(* Spec has the calls of a caller that keeps the contract.  SpecDraw has   *)
(* the drawing calls alone, SpecCairo a cairo path replayed into the       *)
(* builder, SpecContract a caller that breaks the contract, and SpecLife   *)
(* the builder used on after to_path and released by unref.                *)
(* SpecRel has the relative drawing calls, SpecArc svg_arc_to with any     *)
(* radii, and SpecSrgb the threads that call gdk_color_space_get_srgb      *)
(* (src/gdk/gdkcolorspace.c).                                              *)
(***************************************************************************)
EXTENDS Integers, Sequences, FiniteSets

(***************************************************************************)
(* Bounds of the model.                                                    *)
(***************************************************************************)
\* operations appended by drawing calls plus contours inserted by shape and
\* path calls, over the whole run
MaxAdded == 4
\* contours that may be allocated, over the whole run
MaxContours == 2
\* paths that to_path may return, over the whole run
MaxPaths == 1
\* segments of a cairo path handed to add_cairo_path
MaxCairoSegs == 2
\* threads that call gdk_color_space_get_srgb
MaxThreads == 3
\* frames of end_current and add_contour that the stack may hold
MaxFrames == 8

(***************************************************************************)
(* Inputs.                                                                 *)
(***************************************************************************)
\* end points handed to the drawing calls
Points == {<<0, 0>>, <<10, 0>>, <<10, 10>>}
\* control points handed to quad_to and cubic_to
ControlPoints == {<<0, 10>>}
\* end points handed to quad_to and cubic_to, and reached inside an arc
CurveEnds == {<<10, 10>>}
\* rectangles handed to add_rect: [x, y, width, height]
Rects == {[x |-> 0, y |-> 0, width |-> 10, height |-> 10],
          [x |-> 10, y |-> 10, width |-> -10, height |-> -10]}
\* circles handed to add_circle
Circles == {[center |-> <<5, 5>>, radius |-> 5]}
\* radii handed to add_circle that are not positive
BadRadii == {0, -5}
\* points of the Move and Line segments of cairo paths
CairoPoints == {<<0, 0>>, <<10, 0>>}
\* offsets handed to the relative drawing calls
Offsets == {<<0, 0>>, <<10, 0>>, <<-10, 10>>}
\* offsets of the control points handed to rel_quad_to and rel_cubic_to
ControlOffsets == {<<0, 10>>}

VARIABLES
  contours,       \* self->contours: (reverse) list of already recorded contours
  flags,          \* self->flags: flags for the current path
  current_point,  \* self->current_point
  ops,            \* self->ops: operations for the current contour
  points,         \* self->points: points for the operations
  nextId,         \* the identity the next allocated contour gets
  paths,          \* the paths to_path has returned, oldest first
  hist,           \* what the caller has asked for so far (book-keeping)
  freed,          \* the identities of the contours handed to g_free
  ref_count,      \* self->ref_count
  result,         \* how the last call ended
  srgb_profile,   \* the static srgb_profile of gdk_color_space_get_srgb
  once_busy,      \* g_once: an initialization of srgb_profile is under way
  pc,             \* where each thread is in gdk_color_space_get_srgb
  new_profile,    \* the local new_profile of each thread
  retval,         \* what the last call of each thread returned
  n_created       \* the color space objects created so far

bvars == <<contours, flags, current_point, ops, points, nextId>>
svars == <<srgb_profile, once_busy, pc, new_profile, retval, n_created>>
vars == <<contours, flags, current_point, ops, points, nextId, paths, hist,
          freed, ref_count, result, srgb_profile, once_busy, pc, new_profile,
          retval, n_created>>

(***************************************************************************)
(* Helpers on sequences.                                                   *)
(***************************************************************************)
Range(s) == {s[i] : i \in 1..Len(s)}

RECURSIVE Reverse(_)
Reverse(s) == IF s = <<>> THEN <<>> ELSE Append(Reverse(Tail(s)), Head(s))

RECURSIVE Flatten(_)
Flatten(ss) == IF ss = <<>> THEN <<>> ELSE Head(ss) \o Flatten(Tail(ss))

GRAPHENE_POINT_INIT(x, y) == <<x, y>>

(***************************************************************************)
(* The builder as one value.                                               *)
(***************************************************************************)
Self ==
  [contours |-> contours, flags |-> flags, current_point |-> current_point,
   ops |-> ops, points |-> points, nextId |-> nextId]

Becomes(b) ==
  /\ contours' = b.contours
  /\ flags' = b.flags
  /\ current_point' = b.current_point
  /\ ops' = b.ops
  /\ points' = b.points
  /\ nextId' = b.nextId

gsk_path_builder_new ==
  [contours |-> <<>>, flags |-> {}, current_point |-> GRAPHENE_POINT_INIT(0, 0),
   ops |-> <<>>, points |-> <<>>, nextId |-> 1]

gsk_pathop_encode_index(op, index) == [op |-> op, idx |-> index]

(***************************************************************************)
(* Contours and paths (gskcontour.c and gskpath.c are not part of the      *)
(* sources at hand; these follow the specification's data model).  A       *)
(* contour is allocated on its own (mem "heap", told apart by id) until a  *)
(* path takes a copy of it into the path's own storage (mem "path").       *)
(***************************************************************************)
gsk_standard_contour_new(fl, pts, os, id) ==
  [kind |-> "standard", flags |-> fl, points |-> pts, ops |-> os, id |-> id,
   mem |-> "heap"]

gsk_rect_contour_new(rect, id) ==
  [kind |-> "rect",
   flags |-> {"FLAT", "CLOSED"},
   points |-> << <<rect.x, rect.y>>,
                 <<rect.x + rect.width, rect.y>>,
                 <<rect.x + rect.width, rect.y + rect.height>>,
                 <<rect.x, rect.y + rect.height>>,
                 <<rect.x, rect.y>> >>,
   ops |-> << [op |-> "Move", idx |-> 0], [op |-> "Line", idx |-> 0],
              [op |-> "Line", idx |-> 1], [op |-> "Line", idx |-> 2],
              [op |-> "Close", idx |-> 3] >>,
   id |-> id,
   mem |-> "heap"]

gsk_contour_dup(contour, id) == [contour EXCEPT !.id = id, !.mem = "heap"]

gsk_contour_get_end(contour) == contour.points[Len(contour.points)]

\* the copy of a contour that a path keeps in its own storage
gsk_contour_copy(contour) == [contour EXCEPT !.mem = "path"]

\* a variant that keeps the contours of the list instead of copies
path_shares_contours(list) == list

gsk_path_new_from_contours(list) ==
  [i \in 1..Len(list) |-> gsk_contour_copy(list[i])]

gsk_path_get_n_contours(path) == Len(path)

gsk_path_get_contour(path, i) == path[i + 1]

\* the points an operation stores after the point it starts from
n_points(op) ==
  CASE op = "Move" -> 1
    [] op = "Line" -> 1
    [] op = "Quad" -> 2
    [] op = "Cubic" -> 3
    [] op = "Close" -> 1

\* the operations named by names, the first of them starting at point index
RECURSIVE encode_ops(_, _)
encode_ops(names, index) ==
  IF names = <<>>
  THEN <<>>
  ELSE <<gsk_pathop_encode_index(Head(names), index)>>
         \o encode_ops(Tail(names), index + n_points(Head(names)))

\* the contour run backwards: the point order reversed, and the segments
\* after the Move in reverse order, each one flipped by the reversed points
gsk_contour_reverse(contour, id) ==
  [kind |-> "reversed",
   flags |-> contour.flags,
   points |-> Reverse(contour.points),
   ops |-> <<gsk_pathop_encode_index("Move", 0)>>
             \o encode_ops(
                  Reverse([i \in 1..(Len(contour.ops) - 1) |-> contour.ops[i + 1].op]),
                  0),
   id |-> id,
   mem |-> "heap"]

\* the content of a contour, without its identity
Content(contour) ==
  [kind |-> contour.kind, flags |-> contour.flags,
   points |-> contour.points, ops |-> contour.ops]

(***************************************************************************)
(* The static helpers of the builder.                                      *)
(***************************************************************************)
\* a variant that does not look whether a contour is active
ensure_current_always(b) ==
  [b EXCEPT !.flags = {"FLAT"},
            !.ops = Append(@, gsk_pathop_encode_index("Move", 0)),
            !.points = Append(@, b.current_point)]

\* a variant that adds the flat flag to the flags left by the last contour
ensure_current_keep_flags(b) ==
  IF Len(b.ops) # 0
  THEN b
  ELSE [b EXCEPT !.flags = @ \cup {"FLAT"},
                 !.ops = Append(@, gsk_pathop_encode_index("Move", 0)),
                 !.points = Append(@, b.current_point)]

\* a variant that starts every contour at the origin
ensure_current_at_origin(b) ==
  IF Len(b.ops) # 0
  THEN b
  ELSE [b EXCEPT !.flags = {"FLAT"},
                 !.ops = Append(@, gsk_pathop_encode_index("Move", 0)),
                 !.points = Append(@, GRAPHENE_POINT_INIT(0, 0))]

gsk_path_builder_ensure_current(b) ==
  IF Len(b.ops) # 0
  THEN b
  ELSE [b EXCEPT !.flags = {"FLAT"},
                 !.ops = Append(@, gsk_pathop_encode_index("Move", 0)),
                 !.points = Append(@, b.current_point)]

\* a variant that takes the first of the appended points as current point
append_current_first_point(b, op, pts) ==
  LET e == gsk_path_builder_ensure_current(b)
  IN [e EXCEPT !.ops = Append(@, gsk_pathop_encode_index(op, Len(e.points) - 1)),
               !.points = @ \o pts,
               !.current_point = pts[1]]

\* a variant that encodes the position of the first appended point
append_current_next_index(b, op, pts) ==
  LET e == gsk_path_builder_ensure_current(b)
  IN [e EXCEPT !.ops = Append(@, gsk_pathop_encode_index(op, Len(e.points))),
               !.points = @ \o pts,
               !.current_point = pts[Len(pts)]]

gsk_path_builder_append_current(b, op, pts) ==
  LET e == gsk_path_builder_ensure_current(b)
  IN [e EXCEPT !.ops = Append(@, gsk_pathop_encode_index(op, Len(e.points) - 1)),
               !.points = @ \o pts,
               !.current_point = pts[Len(pts)]]

RECURSIVE gsk_path_builder_end_current(_)
RECURSIVE gsk_path_builder_add_contour(_, _)

\* a variant that empties the operations and leaves the points
end_current_keeps_points(b) ==
  IF Len(b.ops) = 0
  THEN b
  ELSE LET contour == gsk_standard_contour_new(b.flags, b.points, b.ops, b.nextId)
       IN gsk_path_builder_add_contour(
            [b EXCEPT !.ops = <<>>, !.nextId = @ + 1],
            contour)

gsk_path_builder_end_current(b) ==
  IF Len(b.ops) = 0
  THEN b
  ELSE LET contour == gsk_standard_contour_new(b.flags, b.points, b.ops, b.nextId)
       IN gsk_path_builder_add_contour(
            [b EXCEPT !.ops = <<>>, !.points = <<>>, !.nextId = @ + 1],
            contour)

gsk_path_builder_add_contour(b, contour) ==
  LET e == gsk_path_builder_end_current(b)
  IN [e EXCEPT !.contours = <<contour>> \o @]

(***************************************************************************)
(* end_current and add_contour once more, followed frame by frame: depth   *)
(* is the number of frames of the two functions on the stack, the frame    *)
(* of the call included.  The result holds the builder, the deepest the    *)
(* stack got, and whether the stack ran out before the call returned.      *)
(***************************************************************************)
RECURSIVE end_current_frames(_, _)
RECURSIVE add_contour_frames(_, _, _)

\* a variant that leaves the buffers as they are before it calls add_contour
end_current_frames_no_reset(b, depth) ==
  IF depth > MaxFrames
  THEN [b |-> b, deepest |-> depth, overflow |-> TRUE]
  ELSE IF Len(b.ops) = 0
       THEN [b |-> b, deepest |-> depth, overflow |-> FALSE]
       ELSE LET contour == gsk_standard_contour_new(b.flags, b.points, b.ops,
                                                    b.nextId)
            IN add_contour_frames([b EXCEPT !.nextId = @ + 1], contour,
                                  depth + 1)

end_current_frames(b, depth) ==
  IF depth > MaxFrames
  THEN [b |-> b, deepest |-> depth, overflow |-> TRUE]
  ELSE IF Len(b.ops) = 0
       THEN [b |-> b, deepest |-> depth, overflow |-> FALSE]
       ELSE LET contour == gsk_standard_contour_new(b.flags, b.points, b.ops,
                                                    b.nextId)
            IN add_contour_frames(
                 [b EXCEPT !.ops = <<>>, !.points = <<>>, !.nextId = @ + 1],
                 contour, depth + 1)

add_contour_frames(b, contour, depth) ==
  IF depth > MaxFrames
  THEN [b |-> b, deepest |-> depth, overflow |-> TRUE]
  ELSE LET r == end_current_frames(b, depth + 1)
       IN IF r.overflow
          THEN r
          ELSE [r EXCEPT !.b = [r.b EXCEPT !.contours = <<contour>> \o @]]

IdSet(list) == {list[i].id : i \in 1..Len(list)}

\* the contours that gsk_path_builder_clear hands to g_free
clear_frees(b) == IdSet(gsk_path_builder_end_current(b).contours)

\* a variant that leaves the list of recorded contours in place
clear_keeps_contours(b) == gsk_path_builder_end_current(b)

\* a variant that puts the current point back to the origin
clear_resets_current_point(b) ==
  [gsk_path_builder_end_current(b) EXCEPT
     !.contours = <<>>, !.current_point = GRAPHENE_POINT_INIT(0, 0)]

gsk_path_builder_clear(b) ==
  [gsk_path_builder_end_current(b) EXCEPT !.contours = <<>>]

\* a variant that hands the list over as it is kept, newest first
to_path_unreversed(b) ==
  LET e == gsk_path_builder_end_current(b)
      path == gsk_path_new_from_contours(e.contours)
  IN [b |-> gsk_path_builder_clear(e), path |-> path, freed |-> clear_frees(e)]

\* returns the builder afterwards, the path, and the contours it freed
gsk_path_builder_to_path(b) ==
  LET e == gsk_path_builder_end_current(b)
      r == [e EXCEPT !.contours = Reverse(@)]
      path == gsk_path_new_from_contours(r.contours)
  IN [b |-> gsk_path_builder_clear(r), path |-> path, freed |-> clear_frees(r)]

\* returns the builder afterwards, the reference count, and the contours it
\* freed; the builder is gone once the count is 0
gsk_path_builder_unref(b, count) ==
  IF ~(count > 0)
  THEN [b |-> b, ref_count |-> count, freed |-> {}]
  ELSE IF count - 1 > 0
       THEN [b |-> b, ref_count |-> count - 1, freed |-> {}]
       ELSE [b |-> gsk_path_builder_clear(b), ref_count |-> count - 1,
             freed |-> clear_frees(b)]

gsk_path_builder_get_current_point(b) == b.current_point

(***************************************************************************)
(* The drawing calls.                                                      *)
(***************************************************************************)
\* a variant that sets the current point and starts no contour
move_to_no_ensure(b, x, y) ==
  LET e == gsk_path_builder_end_current(b)
  IN [e EXCEPT !.current_point = GRAPHENE_POINT_INIT(x, y)]

\* a variant that starts the contour before it sets the current point
move_to_sets_point_last(b, x, y) ==
  LET e == gsk_path_builder_ensure_current(gsk_path_builder_end_current(b))
  IN [e EXCEPT !.current_point = GRAPHENE_POINT_INIT(x, y)]

gsk_path_builder_move_to(b, x, y) ==
  LET e == gsk_path_builder_end_current(b)
  IN gsk_path_builder_ensure_current(
       [e EXCEPT !.current_point = GRAPHENE_POINT_INIT(x, y)])

\* a variant that does not skip a line to the current point
line_to_no_skip(b, x, y) ==
  gsk_path_builder_append_current(b, "Line", <<GRAPHENE_POINT_INIT(x, y)>>)

gsk_path_builder_line_to(b, x, y) ==
  IF b.current_point = GRAPHENE_POINT_INIT(x, y)
  THEN b
  ELSE gsk_path_builder_append_current(b, "Line", <<GRAPHENE_POINT_INIT(x, y)>>)

gsk_path_builder_quad_to(b, p1, p2) ==
  gsk_path_builder_append_current(
    [b EXCEPT !.flags = @ \ {"FLAT"}], "Quad", <<p1, p2>>)

gsk_path_builder_cubic_to(b, p1, p2, p3) ==
  gsk_path_builder_append_current(
    [b EXCEPT !.flags = @ \ {"FLAT"}], "Cubic", <<p1, p2, p3>>)

\* a variant that closes to the current point instead of the start point
close_at_current(b) ==
  IF Len(b.ops) = 0
  THEN b
  ELSE gsk_path_builder_end_current(
         gsk_path_builder_append_current(
           [b EXCEPT !.flags = @ \cup {"CLOSED"}], "Close", <<b.current_point>>))

\* a variant that appends the Close and leaves the contour active
close_no_end(b) ==
  IF Len(b.ops) = 0
  THEN b
  ELSE gsk_path_builder_append_current(
         [b EXCEPT !.flags = @ \cup {"CLOSED"}], "Close", <<b.points[1]>>)

gsk_path_builder_close(b) ==
  IF Len(b.ops) = 0
  THEN b
  ELSE gsk_path_builder_end_current(
         gsk_path_builder_append_current(
           [b EXCEPT !.flags = @ \cup {"CLOSED"}], "Close", <<b.points[1]>>))

(***************************************************************************)
(* The relative drawing calls.  Each hands self->current_point plus the    *)
(* offsets to the absolute call; C evaluates all the arguments before the  *)
(* call is made.                                                           *)
(***************************************************************************)
gsk_path_builder_rel_move_to(b, x, y) ==
  gsk_path_builder_move_to(b, b.current_point[1] + x, b.current_point[2] + y)

gsk_path_builder_rel_line_to(b, x, y) ==
  gsk_path_builder_line_to(b, b.current_point[1] + x, b.current_point[2] + y)

gsk_path_builder_rel_quad_to(b, x1, y1, x2, y2) ==
  gsk_path_builder_quad_to(
    b,
    GRAPHENE_POINT_INIT(b.current_point[1] + x1, b.current_point[2] + y1),
    GRAPHENE_POINT_INIT(b.current_point[1] + x2, b.current_point[2] + y2))

\* a variant that takes each point relative to the point before it
rel_cubic_to_chained(b, x1, y1, x2, y2, x3, y3) ==
  gsk_path_builder_cubic_to(
    b,
    GRAPHENE_POINT_INIT(b.current_point[1] + x1, b.current_point[2] + y1),
    GRAPHENE_POINT_INIT(b.current_point[1] + x1 + x2,
                        b.current_point[2] + y1 + y2),
    GRAPHENE_POINT_INIT(b.current_point[1] + x1 + x2 + x3,
                        b.current_point[2] + y1 + y2 + y3))

gsk_path_builder_rel_cubic_to(b, x1, y1, x2, y2, x3, y3) ==
  gsk_path_builder_cubic_to(
    b,
    GRAPHENE_POINT_INIT(b.current_point[1] + x1, b.current_point[2] + y1),
    GRAPHENE_POINT_INIT(b.current_point[1] + x2, b.current_point[2] + y2),
    GRAPHENE_POINT_INIT(b.current_point[1] + x3, b.current_point[2] + y3))


(***************************************************************************)
(* gsk_path_builder_svg_arc_to.  The start point of the arc is read from   *)
(* the points array (lines 856-866), not from current_point.  The          *)
(* floating-point computation of lines 870-937 is kept as its outcome:     *)
(* with positive radii, d == 0 exactly when the start point equals the     *)
(* end point, and otherwise n_segs cubic segments are handed to            *)
(* arc_segment; segs is that sequence of segments <<c1, c2, end>>.         *)
(***************************************************************************)
svg_arc_start(b) ==
  IF Len(b.points) > 0
  THEN b.points[Len(b.points)]
  ELSE GRAPHENE_POINT_INIT(0, 0)

svg_arc_d_is_zero(b, x, y) == svg_arc_start(b) = GRAPHENE_POINT_INIT(x, y)

arc_segment(b, seg) == gsk_path_builder_cubic_to(b, seg[1], seg[2], seg[3])

RECURSIVE svg_arc_loop(_, _)
svg_arc_loop(b, segs) ==
  IF segs = <<>>
  THEN b
  ELSE svg_arc_loop(arc_segment(b, Head(segs)), Tail(segs))

gsk_path_builder_svg_arc_to(b, x, y, segs) ==
  IF svg_arc_d_is_zero(b, x, y)
  THEN b
  ELSE svg_arc_loop(b, segs)

\* the most segments one arc is cut into: ceil (2 pi / (pi/2 + 0.001))
ArcMaxSegs == 4

\* the n segments computed for an arc that ends at p: control points c, the
\* joints between segments at mid, the last segment ending at p
arc_segments(c, mid, p, n) ==
  [i \in 1..n |-> <<c, c, IF i = n THEN p ELSE mid>>]

(***************************************************************************)
(* The arithmetic of gsk_path_builder_svg_arc_to with any radii, for a     *)
(* rotation of 0 (sin_phi = 0, cos_phi = 1).  Of a floating-point value    *)
(* only its class is kept up to d: "zero", "fin" (finite, not zero),       *)
(* "inf" or "nan".  Angles are integers in units of a millionth of a       *)
(* radian.                                                                 *)
(***************************************************************************)
FloatClass(v) == IF v = 0 THEN "zero" ELSE "fin"

fdiv(a, b) ==
  CASE a = "nan" \/ b = "nan" -> "nan"
    [] a = "zero" /\ b = "zero" -> "nan"
    [] a = "inf" /\ b = "inf" -> "nan"
    [] b = "zero" -> "inf"
    [] a = "zero" -> "zero"
    [] a = "inf" -> "inf"
    [] b = "inf" -> "zero"
    [] OTHER -> "fin"

fmul(a, b) ==
  CASE a = "nan" \/ b = "nan" -> "nan"
    [] a = "zero" /\ b = "inf" -> "nan"
    [] a = "inf" /\ b = "zero" -> "nan"
    [] a = "zero" \/ b = "zero" -> "zero"
    [] a = "inf" \/ b = "inf" -> "inf"
    [] OTHER -> "fin"

\* the sum of two squares
fadd(a, b) ==
  CASE a = "nan" \/ b = "nan" -> "nan"
    [] a = "inf" \/ b = "inf" -> "inf"
    [] a = "zero" /\ b = "zero" -> "zero"
    [] OTHER -> "fin"

\* d of line 890, from the radii and the end points of the arc.  lambda > 1
\* is false for a NaN and true for an infinity; a finite lambda scales the
\* radii by a finite factor, which leaves their classes as they are.
svg_arc_d(rx, ry, x1, y1, x2, y2) ==
  LET x1_ == FloatClass(x1 - x2)
      y1_ == FloatClass(y1 - y2)
      lambda == fadd(fmul(fdiv(x1_, FloatClass(rx)), fdiv(x1_, FloatClass(rx))),
                     fmul(fdiv(y1_, FloatClass(ry)), fdiv(y1_, FloatClass(ry))))
      rxs == IF lambda = "inf" THEN fmul(FloatClass(rx), lambda) ELSE FloatClass(rx)
      rys == IF lambda = "inf" THEN fmul(FloatClass(ry), lambda) ELSE FloatClass(ry)
  IN fadd(fmul(fmul(rxs, y1_), fmul(rxs, y1_)),
          fmul(fmul(rys, x1_), fmul(rys, x1_)))

\* pi, and the 0.001 of line 931, in millionths of a radian
M_PI == 3141593
ArcSlack == 1000
M_PI_2 == M_PI \div 2

\* the range of int
INT_MAX == 2147483647
INT_MIN == -INT_MAX - 1

\* delta_theta of lines 920-927: acos gives an angle between 0 and pi, the
\* sign of the cross product is put on it, and the sweep flag wraps it.  A
\* NaN d makes every later value a NaN, and no comparison with it holds.
svg_arc_delta_theta(d, acos_angle, negative_cross, positive_sweep) ==
  IF d = "nan"
  THEN [nan |-> TRUE, rad |-> 0]
  ELSE LET signed == IF negative_cross THEN -acos_angle ELSE acos_angle
       IN [nan |-> FALSE,
           rad |-> IF positive_sweep /\ signed < 0 THEN signed + 2 * M_PI
                   ELSE IF ~positive_sweep /\ signed > 0 THEN signed - 2 * M_PI
                   ELSE signed]

fabs(v) == IF v < 0 THEN -v ELSE v

ceil_div(a, b) == (a + b - 1) \div b

\* the values n_segs can get at line 931.  The conversion of a NaN to int
\* is undefined: the build gives INT_MIN, 0 or INT_MAX.
svg_arc_n_segs(delta_theta) ==
  IF delta_theta.nan
  THEN {INT_MIN, 0, INT_MAX}
  ELSE {ceil_div(fabs(delta_theta.rad), M_PI_2 + ArcSlack)}

\* radii handed to svg_arc_to
ArcRadii == {0, 5}
\* angles that acos can return at line 921
ArcAngles == {0, 1, M_PI_2 + ArcSlack, M_PI_2 + ArcSlack + 1, M_PI}

(***************************************************************************)
(* Shapes and paths.                                                       *)
(***************************************************************************)
\* a variant that leaves the current point where it was
add_rect_keeps_current_point(b, rect) ==
  LET contour == gsk_rect_contour_new(rect, b.nextId)
  IN gsk_path_builder_add_contour([b EXCEPT !.nextId = @ + 1], contour)

gsk_path_builder_add_rect(b, rect) ==
  LET contour == gsk_rect_contour_new(rect, b.nextId)
      e == gsk_path_builder_add_contour([b EXCEPT !.nextId = @ + 1], contour)
  IN [e EXCEPT !.current_point = gsk_contour_get_end(contour)]

\* the arc decomposition (gsksplineprivate.h): the four quarter arcs of the
\* circle, each as the four points of a cubic
gsk_spline_decompose_arc(center, radius) ==
  LET cx == center[1]
      cy == center[2]
      r == radius
      k == (radius * 5523) \div 10000
  IN << << <<cx + r, cy>>, <<cx + r, cy + k>>, <<cx + k, cy + r>>, <<cx, cy + r>> >>,
        << <<cx, cy + r>>, <<cx - k, cy + r>>, <<cx - r, cy + k>>, <<cx - r, cy>> >>,
        << <<cx - r, cy>>, <<cx - r, cy - k>>, <<cx - k, cy - r>>, <<cx, cy - r>> >>,
        << <<cx, cy - r>>, <<cx + k, cy - r>>, <<cx + r, cy - k>>, <<cx + r, cy>> >> >>

circle_contour_curve(b, pts) ==
  gsk_path_builder_cubic_to(b, pts[2], pts[3], pts[4])

RECURSIVE circle_curves(_, _)
circle_curves(b, curves) ==
  IF curves = <<>>
  THEN b
  ELSE circle_curves(circle_contour_curve(b, Head(curves)), Tail(curves))

\* a variant that leaves the outline open
add_circle_no_close(b, center, radius) ==
  IF ~(radius > 0)
  THEN b
  ELSE circle_curves(
         gsk_path_builder_move_to(b, center[1] + radius, center[2]),
         gsk_spline_decompose_arc(center, radius))

gsk_path_builder_add_circle(b, center, radius) ==
  IF ~(radius > 0)
  THEN b
  ELSE gsk_path_builder_close(
         circle_curves(
           gsk_path_builder_move_to(b, center[1] + radius, center[2]),
           gsk_spline_decompose_arc(center, radius)))

RECURSIVE add_path_loop(_, _, _)
add_path_loop(b, path, i) ==
  IF ~(i < gsk_path_get_n_contours(path))
  THEN b
  ELSE add_path_loop(
         gsk_path_builder_add_contour(
           [b EXCEPT !.nextId = @ + 1],
           gsk_contour_dup(path[i + 1], b.nextId)),
         path, i + 1)

gsk_path_builder_add_path(b, path) == add_path_loop(b, path, 0)

\* a variant that walks the path from its first contour to its last
RECURSIVE add_reverse_path_forward_loop(_, _, _)
add_reverse_path_forward_loop(b, path, i) ==
  IF ~(i < gsk_path_get_n_contours(path))
  THEN b
  ELSE add_reverse_path_forward_loop(
         gsk_path_builder_add_contour(
           [b EXCEPT !.nextId = @ + 1],
           gsk_contour_reverse(gsk_path_get_contour(path, i), b.nextId)),
         path, i + 1)

add_reverse_path_forward(b, path) == add_reverse_path_forward_loop(b, path, 0)

RECURSIVE add_reverse_path_loop(_, _, _)
add_reverse_path_loop(b, path, i) ==
  IF ~(i > 0)
  THEN b
  ELSE add_reverse_path_loop(
         gsk_path_builder_add_contour(
           [b EXCEPT !.nextId = @ + 1],
           gsk_contour_reverse(gsk_path_get_contour(path, i - 1), b.nextId)),
         path, i - 1)

gsk_path_builder_add_reverse_path(b, path) ==
  add_reverse_path_loop(b, path, gsk_path_get_n_contours(path))

\* paths handed to add_path and add_reverse_path that another builder made:
\* the path without contours, and a path of two open contours
GivenPaths ==
  {<<>>,
   gsk_path_builder_to_path(
     gsk_path_builder_line_to(
       gsk_path_builder_move_to(
         gsk_path_builder_line_to(
           gsk_path_builder_move_to(gsk_path_builder_new, 0, 0),
           10, 0),
         10, 10),
       0, 0)).path}

(***************************************************************************)
(* gsk_path_builder_add_cairo_path.  A cairo_path_t is the flat array      *)
(* data of num_data elements: each segment is a header element             *)
(* [type, length] followed by its points, length counting the header.      *)
(* The call is followed through a record st: the builder, the builder      *)
(* calls issued so far, and whether g_assert_not_reached was reached,      *)
(* which ends the process.                                                 *)
(***************************************************************************)
\* a variant that hands the second control point over as the end point
cairo_switch_curve_end(st, data) ==
  LET type == data[1].header.type
  IN CASE type = "CAIRO_PATH_MOVE_TO" ->
            [st EXCEPT !.b = gsk_path_builder_move_to(
                               @, data[2].point[1], data[2].point[2]),
                       !.calls = Append(@, "move_to")]
       [] type = "CAIRO_PATH_LINE_TO" ->
            [st EXCEPT !.b = gsk_path_builder_line_to(
                               @, data[2].point[1], data[2].point[2]),
                       !.calls = Append(@, "line_to")]
       [] type = "CAIRO_PATH_CURVE_TO" ->
            [st EXCEPT !.b = gsk_path_builder_cubic_to(
                               @, data[2].point, data[3].point, data[3].point),
                       !.calls = Append(@, "cubic_to")]
       [] type = "CAIRO_PATH_CLOSE_PATH" ->
            [st EXCEPT !.b = gsk_path_builder_close(@),
                       !.calls = Append(@, "close")]
       [] OTHER -> [st EXCEPT !.aborted = TRUE]

\* a variant that passes over a segment of unknown type
cairo_switch_skips_unknown(st, data) ==
  LET type == data[1].header.type
  IN CASE type = "CAIRO_PATH_MOVE_TO" ->
            [st EXCEPT !.b = gsk_path_builder_move_to(
                               @, data[2].point[1], data[2].point[2]),
                       !.calls = Append(@, "move_to")]
       [] type = "CAIRO_PATH_LINE_TO" ->
            [st EXCEPT !.b = gsk_path_builder_line_to(
                               @, data[2].point[1], data[2].point[2]),
                       !.calls = Append(@, "line_to")]
       [] type = "CAIRO_PATH_CURVE_TO" ->
            [st EXCEPT !.b = gsk_path_builder_cubic_to(
                               @, data[2].point, data[3].point, data[4].point),
                       !.calls = Append(@, "cubic_to")]
       [] type = "CAIRO_PATH_CLOSE_PATH" ->
            [st EXCEPT !.b = gsk_path_builder_close(@),
                       !.calls = Append(@, "close")]
       [] OTHER -> st

\* the switch statement on data->header.type; data is the array from the
\* header on, so that data[1] is the C code's data[0]
add_cairo_path_switch(st, data) ==
  LET type == data[1].header.type
  IN CASE type = "CAIRO_PATH_MOVE_TO" ->
            [st EXCEPT !.b = gsk_path_builder_move_to(
                               @, data[2].point[1], data[2].point[2]),
                       !.calls = Append(@, "move_to")]
       [] type = "CAIRO_PATH_LINE_TO" ->
            [st EXCEPT !.b = gsk_path_builder_line_to(
                               @, data[2].point[1], data[2].point[2]),
                       !.calls = Append(@, "line_to")]
       [] type = "CAIRO_PATH_CURVE_TO" ->
            [st EXCEPT !.b = gsk_path_builder_cubic_to(
                               @, data[2].point, data[3].point, data[4].point),
                       !.calls = Append(@, "cubic_to")]
       [] type = "CAIRO_PATH_CLOSE_PATH" ->
            [st EXCEPT !.b = gsk_path_builder_close(@),
                       !.calls = Append(@, "close")]
       [] OTHER -> [st EXCEPT !.aborted = TRUE]

RECURSIVE add_cairo_path_loop(_, _, _)
add_cairo_path_loop(st, path, i) ==
  IF st.aborted \/ ~(i < path.num_data)
  THEN st
  ELSE add_cairo_path_loop(
         add_cairo_path_switch(st, SubSeq(path.data, i + 1, path.num_data)),
         path, i + path.data[i + 1].header.length)

gsk_path_builder_add_cairo_path(b, path) ==
  add_cairo_path_loop([b |-> b, calls |-> <<>>, aborted |-> FALSE], path, 0)

\* the segments a cairo path is made of, and one of a type cairo does not have
CairoSegments ==
  {[type |-> "CAIRO_PATH_MOVE_TO", pts |-> <<p>>] : p \in CairoPoints}
    \cup {[type |-> "CAIRO_PATH_LINE_TO", pts |-> <<p>>] : p \in CairoPoints}
    \cup {[type |-> "CAIRO_PATH_CURVE_TO", pts |-> <<c, c, p>>] :
            c \in ControlPoints, p \in CurveEnds}
    \cup {[type |-> "CAIRO_PATH_CLOSE_PATH", pts |-> <<>>]}
    \cup {[type |-> "CAIRO_PATH_UNKNOWN", pts |-> <<>>]}

CairoSegmentLists == UNION {[1..k -> CairoSegments] : k \in 0..MaxCairoSegs}

\* the cairo_path_t of a list of segments: each header followed by its points
cairo_path(segs) ==
  LET data == Flatten([i \in 1..Len(segs) |->
                <<[header |-> [type |-> segs[i].type,
                               length |-> 1 + Len(segs[i].pts)]]>>
                  \o [j \in 1..Len(segs[i].pts) |-> [point |-> segs[i].pts[j]]]])
  IN [num_data |-> Len(data), data |-> data]

(***************************************************************************)
(* Calls that break the contract.  Every public function is listed with    *)
(* the arguments its g_return_if_fail / g_return_val_if_fail lines test    *)
(* before anything else: "self" for self != NULL, "path" for path != NULL, *)
(* "center" for center != NULL, "radius" for radius > 0.  add_layout       *)
(* tests nothing itself and hands self to add_cairo_path, which tests it   *)
(* before the builder is touched.  svg_arc_to has no test.                 *)
(***************************************************************************)
precondition_checks ==
  [ref |-> {"self"},
   unref |-> {"self"},
   free_to_path |-> {"self"},
   to_path |-> {"self"},
   get_current_point |-> {"self"},
   add_path |-> {"self", "path"},
   add_reverse_path |-> {"self", "path"},
   add_cairo_path |-> {"self", "path"},
   add_rect |-> {"self"},
   add_circle |-> {"self", "center", "radius"},
   move_to |-> {"self"},
   rel_move_to |-> {"self"},
   line_to |-> {"self"},
   rel_line_to |-> {"self"},
   quad_to |-> {"self"},
   rel_quad_to |-> {"self"},
   cubic_to |-> {"self"},
   rel_cubic_to |-> {"self"},
   close |-> {"self"},
   svg_arc_to |-> {},
   add_layout |-> {"self"}]

PublicCalls == DOMAIN precondition_checks

\* the ways a call of fn can break the contract: a NULL builder, a NULL
\* path, a NULL center, a radius that is not positive
violations(fn) ==
  {"self"}
    \cup (IF fn \in {"add_path", "add_reverse_path", "add_cairo_path"}
          THEN {"path"} ELSE {})
    \cup (IF fn = "add_circle" THEN {"center", "radius"} ELSE {})

\* the ways the call of fn with the violation v can end, each with the
\* builder the caller holds afterwards.  A violation the function tests
\* makes it return at once.  A NULL builder that is not tested is read
\* through (self->points at line 856), which is undefined: the process is
\* ended by the invalid read, or goes on with whatever the read gave.
contract_call(b, fn, v) ==
  IF v \in precondition_checks[fn]
  THEN {[b |-> b, result |-> "rejected"]}
  ELSE {[b |-> b, result |-> "fault"], [b |-> b, result |-> "undefined"]}

(***************************************************************************)
(* gdk_color_space_get_srgb (src/gdk/gdkcolorspace.c).  NULL is 0 and a    *)
(* color space object is a positive number.  g_once_init_enter and         *)
(* g_once_init_leave are GLib's one-time initialization: enter returns     *)
(* FALSE once the location holds a value, TRUE to the one caller that is   *)
(* to initialize it, and blocks every other caller until leave has stored  *)
(* the value.                                                              *)
(***************************************************************************)
Threads == 1..MaxThreads

NULL == 0

\* a variant that lets in every caller that finds the location empty
once_enter_unguarded(value, busy) ==
  IF value # NULL THEN "FALSE" ELSE "TRUE"

g_once_init_enter(value, busy) ==
  IF value # NULL
  THEN "FALSE"
  ELSE IF ~busy THEN "TRUE" ELSE "blocked"

\* the value of the location and of the flag after g_once_init_leave
g_once_init_leave(value) == [value |-> value, busy |-> FALSE]

\* a new color space object, the created-th one
gdk_lcms_color_space_new_from_lcms_profile(created) == created + 1

(***************************************************************************)
(* What the model counts for its bounds.                                   *)
(***************************************************************************)
RECURSIVE SumOps(_)
SumOps(list) ==
  IF list = <<>> THEN 0 ELSE Len(Head(list).ops) + SumOps(Tail(list))

\* operations the builder holds, in the buffer and in the recorded contours
HeldOps(b) == Len(b.ops) + SumOps(b.contours)

\* contours allocated so far, counting the one being built
Allocated(b) == (b.nextId - 1) + (IF Len(b.ops) # 0 THEN 1 ELSE 0)

\* every contour that exists: in the returned paths and in the builder
AllContours == Range(Flatten(paths)) \cup Range(contours)

\* the contours built from the builder's buffers
StandardContours == {c \in AllContours : c.kind = "standard"}

OpNames(contour) == [i \in 1..Len(contour.ops) |-> contour.ops[i].op]

Ids(list) == [i \in 1..Len(list) |-> list[i].id]

(***************************************************************************)
(* The initial state: a new builder, no call made.                         *)
(***************************************************************************)
Init ==
  /\ contours = gsk_path_builder_new.contours
  /\ flags = gsk_path_builder_new.flags
  /\ current_point = gsk_path_builder_new.current_point
  /\ ops = gsk_path_builder_new.ops
  /\ points = gsk_path_builder_new.points
  /\ nextId = gsk_path_builder_new.nextId
  /\ paths = <<>>
  /\ hist = [expect |-> <<0, 0>>, start |-> <<0, 0>>, active |-> FALSE,
             n_move |-> 0, n_auto |-> 0, n_cairo |-> 0, cost |-> 0,
             order |-> <<>>, returned |-> <<>>]
  /\ freed = {}
  /\ ref_count = 1
  /\ result = "done"
  /\ srgb_profile = NULL
  /\ once_busy = FALSE
  /\ pc = [t \in Threads |-> "idle"]
  /\ new_profile = [t \in Threads |-> NULL]
  /\ retval = [t \in Threads |-> NULL]
  /\ n_created = 0


(***************************************************************************)
(* The public calls.  Each action applies the whole C function to the      *)
(* builder.  A call is taken only while the model's bounds allow its       *)
(* result.  hist follows what the caller asked for, from the arguments of  *)
(* the calls alone: the point the caller expects as current point, the     *)
(* start of the contour being drawn, the calls counted, and the            *)
(* identities of the contours in the order they were finished.             *)
(***************************************************************************)
\* what a drawing call adds: the operations it appended
Appended(nb) == HeldOps(nb) - HeldOps(Self)

WithinBounds(nb, added) ==
  /\ Allocated(nb) <= MaxContours
  /\ hist.cost + added <= MaxAdded

\* the identity of the contour that finishing the active contour allocates,
\* when other is the number of contours allocated before it in the same call
Finished(b, other) == IF Len(b.ops) # 0 THEN <<b.nextId + other>> ELSE <<>>

\* the call returned, and it freed nothing
Returned ==
  /\ result' = "done"
  /\ UNCHANGED <<freed, ref_count>>
  /\ UNCHANGED svars

\* hist after a drawing call that appended a segment ending at endpt
Drawn(nb, endpt) ==
  [hist EXCEPT !.expect = endpt,
               !.start = IF hist.active THEN @ ELSE hist.expect,
               !.active = TRUE,
               !.n_auto = IF hist.active THEN @ ELSE @ + 1,
               !.cost = @ + Appended(nb)]

MoveTo ==
  \E p \in Points :
    LET nb == gsk_path_builder_move_to(Self, p[1], p[2])
    IN /\ WithinBounds(nb, Appended(nb))
       /\ Becomes(nb)
       /\ hist' = [hist EXCEPT !.expect = p, !.start = p, !.active = TRUE,
                               !.n_move = @ + 1, !.cost = @ + 1,
                               !.order = @ \o Finished(Self, 0)]
       /\ UNCHANGED paths
       /\ Returned

LineTo ==
  \E p \in Points :
    LET nb == gsk_path_builder_line_to(Self, p[1], p[2])
    IN /\ WithinBounds(nb, Appended(nb))
       /\ Becomes(nb)
       /\ hist' = IF p = hist.expect THEN hist ELSE Drawn(nb, p)
       /\ UNCHANGED paths
       /\ Returned

QuadTo ==
  \E p1 \in ControlPoints, p2 \in CurveEnds :
    LET nb == gsk_path_builder_quad_to(Self, p1, p2)
    IN /\ WithinBounds(nb, Appended(nb))
       /\ Becomes(nb)
       /\ hist' = Drawn(nb, p2)
       /\ UNCHANGED paths
       /\ Returned

CubicTo ==
  \E p1 \in ControlPoints, p2 \in ControlPoints, p3 \in CurveEnds :
    LET nb == gsk_path_builder_cubic_to(Self, p1, p2, p3)
    IN /\ WithinBounds(nb, Appended(nb))
       /\ Becomes(nb)
       /\ hist' = Drawn(nb, p3)
       /\ UNCHANGED paths
       /\ Returned

Close ==
  LET nb == gsk_path_builder_close(Self)
  IN /\ WithinBounds(nb, Appended(nb))
     /\ Becomes(nb)
     /\ hist' = IF hist.active
                THEN [hist EXCEPT !.expect = hist.start, !.active = FALSE,
                                  !.cost = @ + 1,
                                  !.order = @ \o Finished(Self, 0)]
                ELSE hist
     /\ UNCHANGED paths
     /\ Returned

SvgArcTo ==
  \E p \in Points, c \in ControlPoints, n \in 1..ArcMaxSegs :
    \E mid \in CurveEnds :
      LET segs == arc_segments(c, mid, p, n)
          nb == gsk_path_builder_svg_arc_to(Self, p[1], p[2], segs)
      IN /\ hist.cost + n <= MaxAdded
         /\ WithinBounds(nb, Appended(nb))
         /\ Becomes(nb)
         /\ hist' = IF nb = Self THEN hist ELSE Drawn(nb, p)
         /\ UNCHANGED paths
         /\ Returned

AddRect ==
  \E rect \in Rects :
    LET nb == gsk_path_builder_add_rect(Self, rect)
    IN /\ WithinBounds(nb, 1)
       /\ Becomes(nb)
       /\ hist' = [hist EXCEPT !.expect = <<rect.x, rect.y>>, !.active = FALSE,
                               !.cost = @ + 1,
                               !.order = @ \o Finished(Self, 1) \o <<nextId>>]
       /\ UNCHANGED paths
       /\ Returned

AddCircle ==
  \E circle \in Circles :
    LET nb == gsk_path_builder_add_circle(Self, circle.center, circle.radius)
        s == <<circle.center[1] + circle.radius, circle.center[2]>>
    IN /\ WithinBounds(nb, 1)
       /\ Becomes(nb)
       /\ hist' = [hist EXCEPT !.expect = s, !.start = s, !.active = FALSE,
                               !.cost = @ + 1,
                               !.order = @ \o Finished(Self, 0)
                                           \o <<nextId + Len(Finished(Self, 0))>>]
       /\ UNCHANGED paths
       /\ Returned

\* hist after a call that inserted the n contours of a path
Merged(n) ==
  IF n = 0
  THEN hist
  ELSE [hist EXCEPT
          !.active = FALSE,
          !.cost = @ + n,
          !.order = @ \o Finished(Self, 1) \o <<nextId>>
                      \o [i \in 1..(n - 1) |->
                            nextId + Len(Finished(Self, 1)) + i]]

AddPath ==
  \E path \in Range(paths) \cup GivenPaths :
    LET nb == gsk_path_builder_add_path(Self, path)
        n == gsk_path_get_n_contours(path)
    IN /\ WithinBounds(nb, n)
       /\ Becomes(nb)
       /\ hist' = Merged(n)
       /\ UNCHANGED paths
       /\ Returned

AddReversePath ==
  \E path \in Range(paths) \cup GivenPaths :
    LET nb == gsk_path_builder_add_reverse_path(Self, path)
        n == gsk_path_get_n_contours(path)
    IN /\ WithinBounds(nb, n)
       /\ Becomes(nb)
       /\ hist' = Merged(n)
       /\ UNCHANGED paths
       /\ Returned

\* to_path, while the caller may hold most more paths
ToPathWhile(most) ==
  LET r == gsk_path_builder_to_path(Self)
  IN /\ Len(paths) < most
     /\ Becomes(r.b)
     /\ paths' = Append(paths, r.path)
     /\ hist' = [hist EXCEPT !.active = FALSE,
                             !.order = <<>>,
                             !.returned = hist.order \o Finished(Self, 0)]
     /\ freed' = freed \cup r.freed
     /\ result' = "done"
     /\ UNCHANGED ref_count
     /\ UNCHANGED svars

ToPath == ToPathWhile(MaxPaths)

Next ==
  \/ MoveTo
  \/ LineTo
  \/ QuadTo
  \/ CubicTo
  \/ Close
  \/ SvgArcTo
  \/ AddRect
  \/ AddCircle
  \/ AddPath
  \/ AddReversePath
  \/ ToPath

Spec == Init /\ [][Next]_vars

(***************************************************************************)
(* The drawing calls alone on a new builder, ended by one to_path.         *)
(***************************************************************************)
NextDraw ==
  \/ paths = <<>> /\ MoveTo
  \/ paths = <<>> /\ LineTo
  \/ paths = <<>> /\ QuadTo
  \/ paths = <<>> /\ CubicTo
  \/ paths = <<>> /\ Close
  \/ paths = <<>> /\ ToPath

SpecDraw == Init /\ [][NextDraw]_vars

(***************************************************************************)
(* The relative drawing calls and close on a new builder, ended by one     *)
(* to_path.  The caller expects the current point to move by the offsets   *)
(* it gave.                                                                *)
(***************************************************************************)
Offset(p, d) == <<p[1] + d[1], p[2] + d[2]>>

RelMoveTo ==
  \E d \in Offsets :
    LET nb == gsk_path_builder_rel_move_to(Self, d[1], d[2])
        p == Offset(hist.expect, d)
    IN /\ WithinBounds(nb, Appended(nb))
       /\ Becomes(nb)
       /\ hist' = [hist EXCEPT !.expect = p, !.start = p, !.active = TRUE,
                               !.n_move = @ + 1, !.cost = @ + 1,
                               !.order = @ \o Finished(Self, 0)]
       /\ UNCHANGED paths
       /\ Returned

RelLineTo ==
  \E d \in Offsets :
    LET nb == gsk_path_builder_rel_line_to(Self, d[1], d[2])
    IN /\ WithinBounds(nb, Appended(nb))
       /\ Becomes(nb)
       /\ hist' = IF d = <<0, 0>> THEN hist
                  ELSE Drawn(nb, Offset(hist.expect, d))
       /\ UNCHANGED paths
       /\ Returned

RelQuadTo ==
  \E d1 \in ControlOffsets, d2 \in Offsets :
    LET nb == gsk_path_builder_rel_quad_to(Self, d1[1], d1[2], d2[1], d2[2])
    IN /\ WithinBounds(nb, Appended(nb))
       /\ Becomes(nb)
       /\ hist' = Drawn(nb, Offset(hist.expect, d2))
       /\ UNCHANGED paths
       /\ Returned

RelCubicTo ==
  \E d1 \in ControlOffsets, d2 \in ControlOffsets, d3 \in Offsets :
    LET nb == gsk_path_builder_rel_cubic_to(Self, d1[1], d1[2], d2[1], d2[2],
                                            d3[1], d3[2])
    IN /\ WithinBounds(nb, Appended(nb))
       /\ Becomes(nb)
       /\ hist' = Drawn(nb, Offset(hist.expect, d3))
       /\ UNCHANGED paths
       /\ Returned

NextRel ==
  \/ paths = <<>> /\ RelMoveTo
  \/ paths = <<>> /\ RelLineTo
  \/ paths = <<>> /\ RelQuadTo
  \/ paths = <<>> /\ RelCubicTo
  \/ paths = <<>> /\ Close
  \/ paths = <<>> /\ ToPath

SpecRel == Init /\ [][NextRel]_vars

(***************************************************************************)
(* svg_arc_to with any radii, between move_to and line_to calls on a new   *)
(* builder, ended by one to_path.  The angle that acos returns and the     *)
(* sign of the cross product stand for the geometry of the call.  Nothing  *)
(* is called once a call has met undefined behaviour.                      *)
(***************************************************************************)
SvgArcToRadii ==
  \E rx \in ArcRadii, ry \in ArcRadii, positive_sweep \in BOOLEAN, p \in Points :
    \E acos_angle \in ArcAngles, negative_cross \in BOOLEAN :
      \E c \in ControlPoints, mid \in CurveEnds :
        LET start == svg_arc_start(Self)
            d == svg_arc_d(rx, ry, start[1], start[2], p[1], p[2])
            delta_theta == svg_arc_delta_theta(d, acos_angle, negative_cross,
                                               positive_sweep)
        IN \E n_segs \in svg_arc_n_segs(delta_theta) :
             LET nb == IF d = "zero" \/ ~(0 < n_segs)
                       THEN Self
                       ELSE svg_arc_loop(Self, arc_segments(c, mid, p, n_segs))
             IN /\ n_segs <= MaxAdded - hist.cost
                /\ WithinBounds(nb, Appended(nb))
                /\ Becomes(nb)
                /\ hist' = IF nb = Self THEN hist ELSE Drawn(nb, p)
                /\ result' = IF d # "zero" /\ delta_theta.nan
                             THEN "undefined" ELSE "done"
                /\ UNCHANGED <<paths, freed, ref_count>>
                /\ UNCHANGED svars

NextArc ==
  \/ paths = <<>> /\ result = "done" /\ MoveTo
  \/ paths = <<>> /\ result = "done" /\ LineTo
  \/ paths = <<>> /\ result = "done" /\ SvgArcToRadii
  \/ paths = <<>> /\ result = "done" /\ ToPath

SpecArc == Init /\ [][NextArc]_vars

(***************************************************************************)
(* A cairo path replayed into the builder: move_to and to_path calls bring *)
(* the builder to some state, add_cairo_path is called once, and to_path   *)
(* returns what was built.  After the fatal assertion no call is made.     *)
(* Of hist, the fields are read off the builder the replay leaves.         *)
(***************************************************************************)
AddCairoPath ==
  \E segs \in CairoSegmentLists :
    LET r == gsk_path_builder_add_cairo_path(Self, cairo_path(segs))
        nb == r.b
        moves == Cardinality({i \in 1..Len(r.calls) : r.calls[i] = "move_to"})
        started == Allocated(nb) - Allocated(Self)
    IN /\ WithinBounds(nb, Appended(nb))
       /\ Becomes(nb)
       /\ result' = IF r.aborted THEN "aborted" ELSE "done"
       /\ hist' = [hist EXCEPT
                      !.expect = nb.current_point,
                      !.start = IF Len(nb.ops) # 0 THEN nb.points[1]
                                ELSE nb.current_point,
                      !.active = Len(nb.ops) # 0,
                      !.n_move = @ + moves,
                      !.n_auto = @ + started - moves,
                      !.n_cairo = @ + 1,
                      !.cost = @ + Appended(nb),
                      !.order = @ \o [i \in 1..(nb.nextId - nextId) |->
                                        nextId + i - 1]]
       /\ UNCHANGED <<paths, freed, ref_count>>
       /\ UNCHANGED svars

NextCairo ==
  \/ hist.n_cairo = 0 /\ MoveTo
  \/ hist.n_cairo = 0 /\ AddCairoPath
  \/ result = "done" /\ ToPath

SpecCairo == Init /\ [][NextCairo]_vars

(***************************************************************************)
(* A caller that breaks the contract now and then, between calls that      *)
(* keep it.  Nothing is called once the process has met undefined          *)
(* behaviour.                                                              *)
(***************************************************************************)
Violate ==
  \E fn \in PublicCalls :
    \E v \in violations(fn) :
      \E o \in contract_call(Self, fn, v) :
        /\ Becomes(o.b)
        /\ result' = o.result
        /\ UNCHANGED <<paths, hist, freed, ref_count>>
        /\ UNCHANGED svars

NextContract ==
  \/ result \in {"done", "rejected"} /\ MoveTo
  \/ result \in {"done", "rejected"} /\ LineTo
  \/ result \in {"done", "rejected"} /\ Close
  \/ result \in {"done", "rejected"} /\ AddCircle
  \/ result \in {"done", "rejected"} /\ ToPath
  \/ result \in {"done", "rejected"} /\ Violate

SpecContract == Init /\ [][NextContract]_vars

(***************************************************************************)
(* The life of the builder and of the paths it returned: calls go on       *)
(* after to_path, to_path is called once more, and the last reference to   *)
(* the builder is dropped.  No call is made on a builder that is gone.     *)
(***************************************************************************)
Alive == ref_count > 0 /\ result \in {"done", "rejected"}

ToPathAgain == paths # <<>> /\ ToPathWhile(MaxPaths + 1)

Unref ==
  LET r == gsk_path_builder_unref(Self, ref_count)
  IN /\ Becomes(r.b)
     /\ ref_count' = r.ref_count
     /\ freed' = freed \cup r.freed
     /\ result' = "done"
     /\ hist' = [hist EXCEPT !.active = FALSE,
                             !.order = IF r.ref_count = 0 THEN <<>> ELSE @]
     /\ UNCHANGED paths
     /\ UNCHANGED svars

NextLife ==
  \/ Alive /\ MoveTo
  \/ Alive /\ LineTo
  \/ Alive /\ CubicTo
  \/ Alive /\ Close
  \/ Alive /\ AddRect
  \/ Alive /\ AddPath
  \/ Alive /\ ToPath
  \/ Alive /\ ToPathAgain
  \/ Alive /\ Unref

SpecLife == Init /\ [][NextLife]_vars


(***************************************************************************)
(* Threads that call gdk_color_space_get_srgb, each step of a call being   *)
(* one step of the thread: the call, g_once_init_enter (line 141), the     *)
(* creation of the object (line 145), g_once_init_leave (line 147) and     *)
(* the return (line 150).  A thread calls again after it has returned.     *)
(***************************************************************************)
GetSrgbCall(t) ==
  /\ pc[t] \in {"idle", "done"}
  /\ pc' = [pc EXCEPT ![t] = "enter"]
  /\ new_profile' = [new_profile EXCEPT ![t] = NULL]
  /\ UNCHANGED <<srgb_profile, once_busy, retval, n_created>>

GetSrgbEnter(t) ==
  LET r == g_once_init_enter(srgb_profile, once_busy)
  IN /\ pc[t] = "enter"
     /\ r # "blocked"
     /\ pc' = [pc EXCEPT ![t] = IF r = "TRUE" THEN "create" ELSE "return"]
     /\ once_busy' = IF r = "TRUE" THEN TRUE ELSE once_busy
     /\ UNCHANGED <<srgb_profile, new_profile, retval, n_created>>

GetSrgbCreate(t) ==
  /\ pc[t] = "create"
  /\ new_profile' =
       [new_profile EXCEPT
          ![t] = gdk_lcms_color_space_new_from_lcms_profile(n_created)]
  /\ n_created' = n_created + 1
  /\ pc' = [pc EXCEPT ![t] = "leave"]
  /\ UNCHANGED <<srgb_profile, once_busy, retval>>

GetSrgbLeave(t) ==
  LET r == g_once_init_leave(new_profile[t])
  IN /\ pc[t] = "leave"
     /\ srgb_profile' = r.value
     /\ once_busy' = r.busy
     /\ pc' = [pc EXCEPT ![t] = "return"]
     /\ UNCHANGED <<new_profile, retval, n_created>>

GetSrgbReturn(t) ==
  /\ pc[t] = "return"
  /\ retval' = [retval EXCEPT ![t] = srgb_profile]
  /\ pc' = [pc EXCEPT ![t] = "done"]
  /\ UNCHANGED <<srgb_profile, once_busy, new_profile, n_created>>

BuilderIdle == UNCHANGED <<bvars, paths, hist, freed, ref_count, result>>

NextSrgb ==
  \/ \E t \in Threads : GetSrgbCall(t) /\ BuilderIdle
  \/ \E t \in Threads : GetSrgbEnter(t) /\ BuilderIdle
  \/ \E t \in Threads : GetSrgbCreate(t) /\ BuilderIdle
  \/ \E t \in Threads : GetSrgbLeave(t) /\ BuilderIdle
  \/ \E t \in Threads : GetSrgbReturn(t) /\ BuilderIdle

SpecSrgb == Init /\ [][NextSrgb]_vars

(***************************************************************************)
(* Properties.                                                             *)
(***************************************************************************)
IsCurve(o) == o.op \in {"Quad", "Cubic"}

\* C1: every contour built from the builder's buffers carries the flat flag
\* if and only if it holds no Quad and no Cubic operation.
C1_FlatIffNoCurves ==
  \A c \in StandardContours :
    ("FLAT" \in c.flags) <=> (\A i \in 1..Len(c.ops) : ~IsCurve(c.ops[i]))

\* C2: every contour built from the builder's buffers is non-empty, starts
\* with a Move of index 0 and holds no other Move; no recorded contour is
\* empty.
C2_StartsWithOneMove ==
  /\ \A c \in AllContours : Len(c.ops) > 0 /\ Len(c.points) > 0
  /\ \A c \in StandardContours :
       /\ c.ops[1] = [op |-> "Move", idx |-> 0]
       /\ \A i \in 2..Len(c.ops) : c.ops[i].op # "Move"

\* a contour of several operations was finished by move_to or close and
\* another one by to_path
C2_Witness ==
  /\ \E c \in Range(contours) : c.kind = "standard" /\ Len(c.ops) >= 2
  /\ \E c \in Range(Flatten(paths)) : c.kind = "standard"

\* C3: after drawing calls on a new builder, the current point is the last
\* point those calls appended: the target of the last move_to, the end of
\* the last line, quad or cubic that was not skipped, the start point of the
\* contour after a close, and (0,0) before any of them.
C3_CurrentPointIsLastAppended ==
  gsk_path_builder_get_current_point(Self) = hist.expect

\* a contour that started away from (0,0) has been drawn and closed
C3_Witness ==
  /\ ~hist.active
  /\ hist.n_move > 0
  /\ hist.expect # <<0, 0>>
  /\ contours # <<>>
  /\ "CLOSED" \in Head(contours).flags
  /\ Len(Head(contours).ops) >= 3

\* C4: the path to_path returns lists the contours in the order in which
\* they were finished or inserted, the contour still active at to_path last.
C4_PathInFinishedOrder ==
  paths # <<>> => Ids(paths[Len(paths)]) = hist.returned

\* a returned path holds a drawn contour followed by an inserted one
C4_Witness ==
  /\ paths # <<>>
  /\ Len(paths[1]) = 2
  /\ paths[1][1].kind = "standard"
  /\ paths[1][2].kind = "rect"

\* C5 as stated: the number of contours of the path equals the number of
\* move_to calls (none of which is erased by a following move_to).
C5_Original_ContoursEqualMoves ==
  paths # <<>> => Len(paths[1]) = hist.n_move

\* C5 as amended: the number of contours of the path equals the number of
\* move_to calls plus the number of line_to (not skipped), quad_to and
\* cubic_to calls made while no contour was active.
C5_ContoursEqualMovesPlusAutoStarts ==
  paths # <<>> => Len(paths[1]) = hist.n_move + hist.n_auto

\* a path from a move_to and from a contour started by a drawing call
C5_Witness ==
  /\ paths # <<>>
  /\ hist.n_move = 1
  /\ hist.n_auto = 1
  /\ Len(paths[1]) = 2

\* C6: a contour built from the builder's buffers has the closed flag if and
\* only if its last operation is Close, and Close is never anywhere but last
\* (so the flag of one contour never shows on the next).
C6_ClosedIffLastIsClose ==
  \A c \in StandardContours :
    /\ ("CLOSED" \in c.flags) <=> (c.ops[Len(c.ops)].op = "Close")
    /\ \A i \in 1..(Len(c.ops) - 1) : c.ops[i].op # "Close"

\* a closed contour was followed by one that was left open
C6_Witness ==
  \E c1 \in StandardContours, c2 \in StandardContours :
    /\ c1.id < c2.id
    /\ "CLOSED" \in c1.flags
    /\ "CLOSED" \notin c2.flags
    /\ Len(c2.ops) >= 2

\* the calls of the scenario, applied to builder b
Scenario(b) ==
  gsk_path_builder_to_path(
    gsk_path_builder_close(
      gsk_path_builder_line_to(
        gsk_path_builder_line_to(
          gsk_path_builder_move_to(b, 0, 0),
          10, 0),
        10, 10)))

ScenarioShape(path) ==
  /\ Len(path) = 1
  /\ "CLOSED" \in path[1].flags
  /\ OpNames(path[1]) = <<"Move", "Line", "Line", "Close">>

C8_LineToCurrentPointIsNoOp ==
  gsk_path_builder_line_to(Self, current_point[1], current_point[2]) = Self

\* no contour is active, contours are recorded, the current point was left
\* by an earlier call, and a line_to to any other point starts a contour
C8_Witness ==
  /\ ops = <<>>
  /\ contours # <<>>
  /\ current_point # <<0, 0>>
  /\ gsk_path_builder_line_to(Self, current_point[1], current_point[2]) = Self
  /\ gsk_path_builder_line_to(Self, 0, 0) # Self

\* C9: close with no active contour changes nothing of the builder, and in
\* every reachable state close(); close() leaves the builder as one close()
\* does.
C9_CloseIdempotent ==
  /\ Len(ops) = 0 => gsk_path_builder_close(Self) = Self
  /\ gsk_path_builder_close(gsk_path_builder_close(Self))
       = gsk_path_builder_close(Self)

\* a contour is active, so that the first close acts and the second does not
C9_Witness ==
  /\ Len(ops) >= 2
  /\ contours # <<>>
  /\ gsk_path_builder_close(Self) # Self
  /\ gsk_path_builder_close(gsk_path_builder_close(Self))
       = gsk_path_builder_close(Self)

C12_ArcStartsAtCurrentPoint ==
  LET e == gsk_path_builder_ensure_current(Self)
  IN /\ svg_arc_start(Self) = gsk_path_builder_get_current_point(Self)
     /\ svg_arc_start(Self) = e.points[Len(e.points)]

\* C13: in every reachable state of the builder, svg_arc_to to the current
\* point changes nothing of the builder, whatever segments the radii,
\* rotation and flags would give.
C13_DegenerateArcIsNoOp ==
  \A c \in ControlPoints, mid \in CurveEnds, n \in 1..ArcMaxSegs :
    gsk_path_builder_svg_arc_to(
      Self, current_point[1], current_point[2],
      arc_segments(c, mid, current_point, n)) = Self

\* the paths handed to add_path and add_reverse_path
MergedPaths == Range(paths) \cup GivenPaths

\* what a contour is made of, whoever made it
Shape(contour) ==
  [flags |-> contour.flags, points |-> contour.points, ops |-> contour.ops]

\* C14: in every reachable state of the builder, after add_path of a path
\* with contours the current point is the end point of the path's last
\* contour, and after add_reverse_path it is the end point of the reversed
\* contour inserted last, the reverse of the path's first contour.
C14_CurrentPointAfterMerge ==
  \A P \in MergedPaths :
    gsk_path_get_n_contours(P) >= 1 =>
      /\ gsk_path_builder_get_current_point(gsk_path_builder_add_path(Self, P))
           = gsk_contour_get_end(P[Len(P)])
      /\ gsk_path_builder_get_current_point(
           gsk_path_builder_add_reverse_path(Self, P))
           = gsk_contour_get_end(gsk_contour_reverse(P[1], 0))

\* C15: in every reachable state of the builder, add_path(P) leaves no
\* active contour, keeps the contours held before (the active one finished
\* among them) and puts copies of P's contours after them in P's order; the
\* path built from the result is the path built before followed by P.
C15_AddPathAppends ==
  \A P \in MergedPaths :
    LET nb == gsk_path_builder_add_path(Self, P)
        before == Reverse(gsk_path_builder_end_current(Self).contours)
        after == Reverse(nb.contours)
        out == gsk_path_builder_to_path(nb).path
        base == gsk_path_builder_to_path(Self).path
    IN /\ nb.ops = <<>>
       /\ nb.points = <<>>
       /\ Len(after) = Len(before) + Len(P)
       /\ \A i \in 1..Len(before) : Content(after[i]) = Content(before[i])
       /\ \A i \in 1..Len(P) : Content(after[Len(before) + i]) = Content(P[i])
       /\ Len(out) = Len(base) + Len(P)
       /\ \A i \in 1..Len(base) : Content(out[i]) = Content(base[i])
       /\ \A i \in 1..Len(P) : Content(out[Len(base) + i]) = Content(P[i])

C17_AddCircleAddsOneClosedContour ==
  /\ \A circle \in Circles :
       LET nb == gsk_path_builder_add_circle(Self, circle.center, circle.radius)
           before == gsk_path_builder_end_current(Self).contours
           c == Head(nb.contours)
           curves == gsk_spline_decompose_arc(circle.center, circle.radius)
           s == <<circle.center[1] + circle.radius, circle.center[2]>>
       IN circle.radius > 0 =>
            /\ nb.ops = <<>>
            /\ nb.points = <<>>
            /\ Len(nb.contours) = Len(before) + 1
            /\ \A i \in 1..Len(before) :
                 Content(nb.contours[i + 1]) = Content(before[i])
            /\ OpNames(c) = <<"Move">> \o [i \in 1..Len(curves) |-> "Cubic"]
                                       \o <<"Close">>
            /\ c.points[1] = s
            /\ \A i \in 1..Len(curves) :
                 SubSeq(c.points, 3 * i - 1, 3 * i + 1)
                   = <<curves[i][2], curves[i][3], curves[i][4]>>
            /\ "CLOSED" \in c.flags
            /\ gsk_path_builder_get_current_point(nb) = s
  /\ LET path == gsk_path_builder_to_path(
                   gsk_path_builder_add_circle(gsk_path_builder_new, <<5, 5>>, 5)).path
     IN /\ gsk_path_get_n_contours(path) = 1
        /\ "CLOSED" \in path[1].flags

\* add_circle has acted while a contour was active: the circle is recorded
\* after the contour that was being drawn
C17_Witness ==
  /\ ops = <<>>
  /\ Len(contours) >= 2
  /\ Len(contours[1].ops) = 6
  /\ contours[1].points[1] = <<10, 5>>
  /\ "CLOSED" \in contours[1].flags
  /\ "CLOSED" \notin contours[2].flags
  /\ current_point = <<10, 5>>

\* the builder call that replays a segment
call_of(type) ==
  CASE type = "CAIRO_PATH_MOVE_TO" -> "move_to"
    [] type = "CAIRO_PATH_LINE_TO" -> "line_to"
    [] type = "CAIRO_PATH_CURVE_TO" -> "cubic_to"
    [] type = "CAIRO_PATH_CLOSE_PATH" -> "close"

\* the builder calls of a list of segments, issued one by one on builder b
RECURSIVE Replay(_, _)
Replay(b, segs) ==
  IF segs = <<>>
  THEN b
  ELSE LET seg == Head(segs)
           nb == CASE seg.type = "CAIRO_PATH_MOVE_TO" ->
                        gsk_path_builder_move_to(b, seg.pts[1][1], seg.pts[1][2])
                   [] seg.type = "CAIRO_PATH_LINE_TO" ->
                        gsk_path_builder_line_to(b, seg.pts[1][1], seg.pts[1][2])
                   [] seg.type = "CAIRO_PATH_CURVE_TO" ->
                        gsk_path_builder_cubic_to(b, seg.pts[1], seg.pts[2], seg.pts[3])
                   [] seg.type = "CAIRO_PATH_CLOSE_PATH" ->
                        gsk_path_builder_close(b)
       IN Replay(nb, Tail(segs))

WellFormed(segs) ==
  \A i \in 1..Len(segs) : segs[i].type # "CAIRO_PATH_UNKNOWN"

\* the position of the first segment of unknown type
FirstUnknown(segs) ==
  CHOOSE k \in 1..Len(segs) :
    /\ segs[k].type = "CAIRO_PATH_UNKNOWN"
    /\ \A i \in 1..(k - 1) : segs[i].type # "CAIRO_PATH_UNKNOWN"

\* C18: in every state that move_to and to_path calls bring the builder to
\* and for every well-formed cairo path, add_cairo_path comes to its end
\* without the assertion,
\* issues one builder call for each segment, in order and of the kind of
\* the segment, and leaves the builder as these calls made directly do.
C18_CairoPathIsReplayed ==
  hist.n_cairo = 0 =>
    \A segs \in CairoSegmentLists :
      WellFormed(segs) =>
        LET r == gsk_path_builder_add_cairo_path(Self, cairo_path(segs))
        IN /\ ~r.aborted
           /\ r.calls = [i \in 1..Len(segs) |-> call_of(segs[i].type)]
           /\ r.b = Replay(Self, segs)

\* add_cairo_path has replayed a Move, a Cubic and a Close
C18_Witness ==
  /\ result = "done"
  /\ hist.n_cairo = 1
  /\ contours # <<>>
  /\ OpNames(Head(contours)) = <<"Move", "Cubic", "Close">>

\* C19: in every state that move_to and to_path calls bring the builder to
\* and for every cairo path with a segment of unknown type, add_cairo_path ends in the fatal
\* assertion at the first such segment: the calls issued are those of the
\* segments before it, the builder is as these calls leave it, and nothing
\* is issued for the segment or for any segment after it.  The process
\* makes no step after the assertion.
C19_UnknownTagIsFatal ==
  /\ hist.n_cairo = 0 =>
       \A segs \in CairoSegmentLists :
         ~WellFormed(segs) =>
           LET r == gsk_path_builder_add_cairo_path(Self, cairo_path(segs))
               k == FirstUnknown(segs)
           IN /\ r.aborted
              /\ r.calls = [i \in 1..(k - 1) |-> call_of(segs[i].type)]
              /\ r.b = Replay(Self, SubSeq(segs, 1, k - 1))
  /\ result = "aborted" => ~(ENABLED NextCairo)

\* the assertion was reached after a segment that had been replayed
C19_Witness ==
  /\ result = "aborted"
  /\ Len(ops) >= 2

\* C20: every call of a public function that breaks the contract (a NULL
\* builder, a NULL path or center, add_circle with a radius that is not
\* positive) ends in one way only: rejected by a precondition check, with
\* the operation buffer, the point buffer, the flags, the recorded contours
\* and the current point as they were.
C20_ViolationsAreRejected ==
  /\ result \in {"done", "rejected"}
  /\ \A fn \in PublicCalls :
       \A v \in violations(fn) :
         contract_call(Self, fn, v) = {[b |-> Self, result |-> "rejected"]}
  /\ \A circle \in Circles, radius \in BadRadii :
       gsk_path_builder_add_circle(Self, circle.center, radius) = Self

\* C21: in every reachable state, each relative call leaves the builder as
\* the absolute call does with every point of the call offset by the
\* current point held before the call; rel_line_to(0,0) changes nothing;
\* and the current point is where the offsets given so far lead.
C21_RelativeIsAbsoluteFromCurrentPoint ==
  LET cp == gsk_path_builder_get_current_point(Self)
  IN /\ \A d \in Offsets :
          /\ gsk_path_builder_rel_move_to(Self, d[1], d[2])
               = gsk_path_builder_move_to(Self, cp[1] + d[1], cp[2] + d[2])
          /\ gsk_path_builder_rel_line_to(Self, d[1], d[2])
               = gsk_path_builder_line_to(Self, cp[1] + d[1], cp[2] + d[2])
     /\ \A d1 \in Offsets \cup ControlOffsets, d2 \in Offsets \cup ControlOffsets :
          /\ gsk_path_builder_rel_quad_to(Self, d1[1], d1[2], d2[1], d2[2])
               = gsk_path_builder_quad_to(Self, Offset(cp, d1), Offset(cp, d2))
          /\ \A d3 \in Offsets :
               gsk_path_builder_rel_cubic_to(Self, d1[1], d1[2], d2[1], d2[2],
                                             d3[1], d3[2])
                 = gsk_path_builder_cubic_to(Self, Offset(cp, d1),
                                             Offset(cp, d2), Offset(cp, d3))
     /\ gsk_path_builder_rel_line_to(Self, 0, 0) = Self
     /\ cp = hist.expect

\* relative calls have moved the current point away from (0,0), and a
\* relative cubic has been appended whose control points are both offset
\* from the point the cubic starts at
C21_Witness ==
  /\ Len(ops) >= 3
  /\ ops[Len(ops)].op = "Cubic"
  /\ points[1] # <<0, 0>>
  /\ points[Len(points) - 1] = Offset(points[Len(points) - 3], <<0, 10>>)
  /\ points[Len(points) - 2] = points[Len(points) - 1]
  /\ current_point = Offset(points[Len(points) - 3], <<-10, 10>>)
  /\ current_point \notin Points

\* what line_to, quad_to and cubic_to leave in the buffers of a builder that
\* had no active contour and the current point at
AutoStarted(b, at) ==
  /\ \A p \in Points :
       p # at =>
         LET nb == gsk_path_builder_line_to(b, p[1], p[2])
         IN /\ nb.ops = <<gsk_pathop_encode_index("Move", 0),
                          gsk_pathop_encode_index("Line", 0)>>
            /\ nb.points = <<at, p>>
            /\ nb.contours = b.contours
  /\ \A p1 \in ControlPoints, p2 \in CurveEnds :
       LET nb == gsk_path_builder_quad_to(b, p1, p2)
       IN /\ nb.ops = <<gsk_pathop_encode_index("Move", 0),
                        gsk_pathop_encode_index("Quad", 0)>>
          /\ nb.points = <<at, p1, p2>>
          /\ nb.contours = b.contours
  /\ \A p1 \in ControlPoints, p2 \in ControlPoints, p3 \in CurveEnds :
       LET nb == gsk_path_builder_cubic_to(b, p1, p2, p3)
       IN /\ nb.ops = <<gsk_pathop_encode_index("Move", 0),
                        gsk_pathop_encode_index("Cubic", 0)>>
          /\ nb.points = <<at, p1, p2, p3>>
          /\ nb.contours = b.contours

\* C22: in every reachable state with no active contour, a line_to to
\* another point than the current point, a quad_to or a cubic_to starts a
\* contour of a Move at the current point held before the call followed by
\* the drawing operation; on a new builder the Move is at (0,0), after a
\* close at the start point of the contour that was closed, and after
\* add_rect at the current point add_rect left.
C22_AutoStartAtCurrentPoint ==
  /\ Len(ops) = 0 => AutoStarted(Self, current_point)
  /\ AutoStarted(gsk_path_builder_new, <<0, 0>>)
  /\ Len(ops) # 0 => AutoStarted(gsk_path_builder_close(Self), points[1])
  /\ \A rect \in Rects :
       LET nb == gsk_path_builder_add_rect(Self, rect)
       IN AutoStarted(nb, gsk_path_builder_get_current_point(nb))

\* a contour that started away from (0,0) was closed, and the line_to that
\* followed has started a contour at its start point
C22_Witness ==
  /\ contours # <<>>
  /\ "CLOSED" \in Head(contours).flags
  /\ Head(contours).kind = "standard"
  /\ Head(contours).points[1] # <<0, 0>>
  /\ OpNames([ops |-> ops]) = <<"Move", "Line">>
  /\ points[1] = Head(contours).points[1]
  /\ hist.n_auto >= 1

\* the points an operation appends to the buffer after its start point
point_count(op) == IF op = "Move" THEN 0 ELSE n_points(op)

\* the indices of a sequence of operations resolve in a buffer of n points:
\* the Move has index 0, every other operation has the index of the last
\* point appended before it, and its own points follow inside the buffer
IndicesResolve(os, n) ==
  \A i \in 1..Len(os) :
    /\ os[i].op = "Move" => os[i].idx = 0
    /\ i > 1 => os[i].idx = os[i - 1].idx + point_count(os[i - 1].op)
    /\ 0 <= os[i].idx
    /\ os[i].idx + point_count(os[i].op) <= n - 1

\* C23: in every reachable state the buffered operations carry indices that
\* resolve inside the point buffer (Move 0, every other operation the
\* position of the point it starts from, index + points appended <=
\* points.len - 1); while the contour is not finished, a call leaves the
\* operations and points already buffered as they are; and every contour
\* built from the buffers has indices that resolve in its own points.
C23_IndicesResolve ==
  /\ [](/\ IndicesResolve(ops, Len(points))
        /\ \A c \in StandardContours : IndicesResolve(c.ops, Len(c.points)))
  /\ [][nextId' = nextId =>
          /\ Len(ops') >= Len(ops)
          /\ SubSeq(ops', 1, Len(ops)) = ops
          /\ Len(points') >= Len(points)
          /\ SubSeq(points', 1, Len(points)) = points]_vars

\* a contour of a line and a cubic is active after another contour was
\* recorded: the cubic starts at the point the line appended
C23_Witness ==
  /\ OpNames([ops |-> ops]) = <<"Move", "Line", "Cubic">>
  /\ ops[3].idx = 1
  /\ Len(points) = 5
  /\ contours # <<>>

\* C25: in every reachable state, add_rect finishes the active contour, if
\* there is one, and records it before the rectangle; it adds exactly one
\* contour, the rectangle contour of the rectangle given, that takes
\* nothing from the operation and point buffers; it leaves no active
\* contour; and the current point is the end point of the rectangle contour.
C25_AddRectAddsOneContour ==
  \A rect \in Rects :
    LET nb == gsk_path_builder_add_rect(Self, rect)
        before == gsk_path_builder_end_current(Self).contours
        c == Head(nb.contours)
    IN /\ nb.ops = <<>>
       /\ nb.points = <<>>
       /\ Len(nb.contours) = Len(before) + 1
       /\ \A i \in 1..Len(before) :
            Content(nb.contours[i + 1]) = Content(before[i])
       /\ Len(before) = Len(contours) + (IF Len(ops) # 0 THEN 1 ELSE 0)
       /\ Len(ops) # 0 =>
            Content(nb.contours[2])
              = Content(gsk_standard_contour_new(flags, points, ops, 0))
       /\ Content(c) = Content(gsk_rect_contour_new(rect, 0))
       /\ gsk_path_builder_get_current_point(nb) = gsk_contour_get_end(c)
       /\ gsk_path_builder_get_current_point(nb) = <<rect.x, rect.y>>

\* add_rect has acted while a contour was active: the rectangle is recorded
\* after the contour that was being drawn, and the current point has moved
\* to the rectangle
C25_Witness ==
  /\ ops = <<>>
  /\ points = <<>>
  /\ Len(contours) = 2
  /\ contours[1].kind = "rect"
  /\ contours[2].kind = "standard"
  /\ Len(contours[2].ops) >= 2
  /\ current_point = <<10, 10>>
  /\ current_point = gsk_contour_get_end(contours[1])
  /\ current_point # gsk_contour_get_end(contours[2])

\* the points the operations after the Move have appended
RECURSIVE AppendedPoints(_)
AppendedPoints(os) ==
  IF os = <<>>
  THEN 0
  ELSE (IF Head(os).op = "Move" THEN 0 ELSE n_points(Head(os).op))
         + AppendedPoints(Tail(os))

\* C26: in every reachable state the operation buffer is empty if and only
\* if the point buffer is empty, and when they are not empty the number of
\* buffered points is 1 plus the points appended by the operations that are
\* not Move (Line 1, Quad 2, Cubic 3, Close 1); the same count holds in
\* every contour built from the buffers, where the Close is seen.
C26_PointsMatchOperations ==
  /\ (Len(ops) = 0) <=> (Len(points) = 0)
  /\ Len(ops) # 0 => Len(points) = 1 + AppendedPoints(ops)
  /\ \A c \in StandardContours : Len(c.points) = 1 + AppendedPoints(c.ops)

\* a quad and a cubic are buffered after the Move, six points in all, and
\* a contour was recorded before
C26_Witness ==
  /\ OpNames([ops |-> ops]) = <<"Move", "Quad", "Cubic">>
  /\ Len(points) = 6
  /\ contours # <<>>

\* C27: in every reachable state with an active contour the current point
\* is the last point of the point buffer; with no active contour the point
\* buffer is empty, whatever the current point is.
C27_CurrentPointIsLastBuffered ==
  /\ Len(ops) # 0 =>
       gsk_path_builder_get_current_point(Self) = points[Len(points)]
  /\ Len(ops) = 0 => points = <<>>

\* the current point is the end of a buffered curve, after a state with no
\* active contour in which it was away from (0,0) has been passed
C27_Witness ==
  /\ Len(ops) >= 2
  /\ ops[Len(ops)].op \in {"Quad", "Cubic"}
  /\ current_point = points[Len(points)]
  /\ points[1] # <<0, 0>>
  /\ hist.n_auto >= 1

C24_ArcIsAtMostFourCubics ==
  \A rx \in ArcRadii, ry \in ArcRadii, positive_sweep \in BOOLEAN, p \in Points :
    \A acos_angle \in ArcAngles, negative_cross \in BOOLEAN :
      LET start == svg_arc_start(Self)
          d == svg_arc_d(rx, ry, start[1], start[2], p[1], p[2])
          delta_theta == svg_arc_delta_theta(d, acos_angle, negative_cross,
                                             positive_sweep)
      IN d # "zero" =>
           /\ ~delta_theta.nan
           /\ IF positive_sweep
              THEN 0 <= delta_theta.rad /\ delta_theta.rad <= 2 * M_PI
              ELSE -2 * M_PI <= delta_theta.rad /\ delta_theta.rad <= 0
           /\ \A n_segs \in svg_arc_n_segs(delta_theta) :
                /\ 0 <= n_segs /\ n_segs <= ArcMaxSegs
                /\ fabs(delta_theta.rad) <= n_segs * (M_PI_2 + ArcSlack)
                /\ n_segs > 0 =>
                     fabs(delta_theta.rad) > (n_segs - 1) * (M_PI_2 + ArcSlack)
                /\ \A c \in ControlPoints, mid \in CurveEnds :
                     LET e == gsk_path_builder_ensure_current(Self)
                         nb == svg_arc_loop(Self, arc_segments(c, mid, p, n_segs))
                     IN n_segs > 0 =>
                          /\ Len(nb.ops) = Len(e.ops) + n_segs
                          /\ SubSeq(nb.ops, 1, Len(e.ops)) = e.ops
                          /\ \A i \in (Len(e.ops) + 1)..Len(nb.ops) :
                               nb.ops[i].op = "Cubic"
                          /\ nb.contours = Self.contours

\* C30: in every reachable state, end_current and add_contour return
\* before the stack runs out and give what the functions are defined to
\* give; end_current holds at most three frames (itself, add_contour and
\* the one nested end_current, which finds the buffers empty and returns)
\* and add_contour at most one frame more; and the contour that end_current
\* builds from the buffers is in the list of recorded contours once, at
\* its head, with the contours recorded before behind it.
C30_EndCurrentRecursionEnds ==
  LET r == end_current_frames(Self, 1)
  IN /\ ~r.overflow
     /\ r.b = gsk_path_builder_end_current(Self)
     /\ r.deepest = (IF Len(ops) = 0 THEN 1 ELSE 3)
     /\ r.b.ops = <<>> /\ r.b.points = <<>>
     /\ end_current_frames(r.b, 1).b = r.b
     /\ Len(ops) # 0 =>
          /\ r.b.contours
               = <<gsk_standard_contour_new(flags, points, ops, nextId)>>
                   \o contours
          /\ nextId \notin IdSet(contours)
     /\ Cardinality(IdSet(r.b.contours)) = Len(r.b.contours)
     /\ \A rect \in Rects :
          LET a == add_contour_frames([Self EXCEPT !.nextId = @ + 1],
                                      gsk_rect_contour_new(rect, nextId), 1)
          IN /\ ~a.overflow
             /\ a.deepest = (IF Len(ops) = 0 THEN 2 ELSE 4)
             /\ a.b = gsk_path_builder_add_contour(
                        [Self EXCEPT !.nextId = @ + 1],
                        gsk_rect_contour_new(rect, nextId))
             /\ Cardinality(IdSet(a.b.contours)) = Len(a.b.contours)

\* a contour of several operations is active while another contour built
\* from the buffers is recorded: end_current has run its recursion before
\* and runs it again from here
C30_Witness ==
  /\ Len(ops) >= 2
  /\ \E i \in 1..Len(contours) :
       contours[i].kind = "standard" /\ Len(contours[i].ops) >= 2
  /\ end_current_frames(Self, 1).deepest = 3

\* C29: however the calls of the threads interleave, at most one color
\* space object is ever created; a call returns only after the object has
\* been stored in srgb_profile; every call that has returned returned that
\* one object, which is not NULL; and srgb_profile, once set, keeps its
\* value.
C29_SrgbCreatedOnce ==
  /\ [](/\ n_created <= 1
        /\ \A t \in Threads :
             /\ pc[t] = "return" => srgb_profile # NULL
             /\ pc[t] = "done" =>
                  /\ retval[t] # NULL
                  /\ retval[t] = srgb_profile
                  /\ n_created = 1
        /\ \A t \in Threads, u \in Threads :
             (retval[t] # NULL /\ retval[u] # NULL) => retval[t] = retval[u])
  /\ [][srgb_profile # NULL => srgb_profile' = srgb_profile]_vars

\* every thread has returned the object that one of them created while the
\* others did not create any
C29_Witness ==
  /\ \A t \in Threads : pc[t] = "done" /\ retval[t] = 1
  /\ n_created = 1
  /\ \E t \in Threads : new_profile[t] = 1
  /\ \E t \in Threads : new_profile[t] = NULL

=============================================================================
